---- MODULE Spec2Model ----
(***************************************************************************)
(* load_tweets.py: insert_tweet and get_id_urls run by concurrent loader   *)
(* processes against one PostgreSQL database (READ COMMITTED).  Every SQL  *)
(* statement of insert_tweet is one atomic step of the writer's            *)
(* transaction; rows a transaction wrote stay private to it until COMMIT.  *)
(* Strings are sequences of code points, NULL/None is the empty tuple and  *)
(* a non-null value v of a nullable column or key is the 1-tuple <<v>>.    *)
(***************************************************************************)
EXTENDS Integers, Sequences, FiniteSets, TLC

VARIABLES
    db,            \* the committed rows of every table
    tx,            \* per writer, the rows its open transaction has written
    pc,            \* per writer, the statement of insert_tweet it executes next
    cur,           \* per writer, the tweet argument of its current (or last) call
    idx,           \* per writer, the position in the entity list being looped over
    res,           \* per writer, the id get_id_urls returned (id_urls, line 274/347)
    user_id_urls,  \* per writer, user_id_urls (lines 82-85)
    seq,           \* the last value drawn from the urls.id_urls sequence
    out,           \* per writer, how its last call ended
    at,            \* per writer, the statement at which its last exception was raised
    calls          \* number of insert_tweet calls started

vars == <<db, tx, pc, cur, idx, res, user_id_urls, seq, out, at, calls>>

\* the loader processes that run insert_tweet concurrently
Writers == {1, 2, 3}

\* total number of insert_tweet calls started in one behaviour
MaxIngests == 3

NULL == <<>>

Some(v) == <<v>>

\* code points
NUL == 0

UrlA == <<97>>

UrlB == <<98>>

\* Python's str(n) and the bigint column reading the text parameter back
Str(n) == [digits |-> n]

Bigint(s) == s.digits

\* dict.get(key): None when the key is absent
Get(d, k) == IF k \in DOMAIN d THEN d[k] ELSE NULL

\* s.replace('\x00', '') on a nullable string
RECURSIVE StripNul(_)
StripNul(s) ==
    IF s = <<>> THEN <<>>
    ELSE IF Head(s) = NUL THEN StripNul(Tail(s))
    ELSE <<Head(s)>> \o StripNul(Tail(s))

remove_nulls(s) == IF s = NULL THEN NULL ELSE Some(StripNul(s[1]))

(***************************************************************************)
(* The decoded input records the driver feeds to insert_tweet.             *)
(***************************************************************************)
Tweet1 ==
    [id |-> 1,
     created_at |-> Some(<<49>>),
     user |-> [id |-> 10, url |-> Some(UrlA), screen_name |-> Some(<<120>>),
               geo_enabled |-> TRUE],
     geo |-> Some([coordinates |-> <<1, 2>>]),
     place |-> NULL,
     text |-> Some(<<104, NUL, 105>>),
     in_reply_to_user_id |-> NULL,
     entities |-> [urls |-> <<[expanded_url |-> UrlA], [expanded_url |-> UrlB]>>,
                   user_mentions |-> <<[id |-> 20]>>,
                   hashtags |-> <<[text |-> <<102>>]>>,
                   symbols |-> <<>>]]

Tweet2 ==
    [id |-> 2,
     created_at |-> Some(<<50>>),
     user |-> [id |-> 20, url |-> NULL, screen_name |-> Some(<<121>>),
               geo_enabled |-> FALSE],
     geo |-> NULL,
     place |-> Some([bounding_box |-> Some([coordinates |-> <<<<<<0, 0>>, <<1, 1>>>>>>]),
                     country_code |-> Some(<<85, 83>>),
                     full_name |-> Some(<<66, 44, 32, 77, 65>>)]),
     text |-> Some(<<111>>),
     in_reply_to_user_id |-> Some(10),
     entities |-> [urls |-> <<[expanded_url |-> UrlB], [expanded_url |-> UrlA]>>,
                   user_mentions |-> <<>>,
                   hashtags |-> <<>>,
                   symbols |-> <<[text |-> <<66>>]>>],
     extended_entities |-> [media |-> <<[media_url |-> UrlB, type |-> Some(<<112>>)]>>]]

\* geo and place are both null: line 151 raises TypeError inside "except TypeError"
Tweet3 ==
    [id |-> 3,
     created_at |-> Some(<<51>>),
     user |-> [id |-> 10, url |-> NULL, screen_name |-> Some(<<120>>),
               geo_enabled |-> TRUE],
     geo |-> NULL,
     place |-> NULL,
     text |-> Some(<<122>>),
     in_reply_to_user_id |-> NULL,
     entities |-> [urls |-> <<>>, user_mentions |-> <<>>,
                   hashtags |-> <<>>, symbols |-> <<>>]]

Tweets == {Tweet1, Tweet2, Tweet3}

(***************************************************************************)
(* Store: one set of rows per table.                                       *)
(***************************************************************************)
Tables == {"urls", "users", "tweets", "tweet_urls", "tweet_mentions",
           "tweet_tags", "tweet_media"}

EmptyStore == [t \in Tables |-> {}]

\* what a statement of writer w reads: committed rows and w's own writes
View(w) == [t \in Tables |-> db[t] \cup tx[w][t]]

Merge(s, t) == [k \in Tables |-> s[k] \cup t[k]]

\* the columns of the unique constraint each ON CONFLICT clause arbitrates on
Key(table, row) ==
    CASE table = "urls" -> row.url
      [] table = "users" -> row.id_users
      [] table = "tweets" -> row.id_tweets
      [] table = "tweet_urls" -> <<row.id_tweets, row.id_urls>>
      [] table = "tweet_mentions" -> <<row.id_tweets, row.id_users>>
      [] table = "tweet_tags" -> <<row.id_tweets, row.tag>>
      [] table = "tweet_media" -> <<row.id_tweets, row.id_urls>>

Conflicts(store, table, row) ==
    \E r \in store[table] : Key(table, r) = Key(table, row)

\* writers whose uncommitted row holds the key that w's insert needs
Holders(w, table, row) ==
    {v \in Writers \ {w} : Conflicts(tx[v], table, row)}

\* the wait-for graph PostgreSQL's deadlock detector walks
RECURSIVE ReachFrom(_, _)
ReachFrom(S, Wait) ==
    LET T == S \cup UNION {Wait[v] : v \in S}
    IN  IF T = S THEN S ELSE ReachFrom(T, Wait)

(***************************************************************************)
(* Field extraction of insert_tweet.                                       *)
(***************************************************************************)
\* lines 145-165: the exception (if any) that leaves the geo try-blocks
GeoRaises(t) ==
    IF "geo" \notin DOMAIN t THEN TRUE                      \* KeyError, line 146
    ELSE IF t.geo # NULL THEN "coordinates" \notin DOMAIN t.geo[1]
    ELSE IF "place" \notin DOMAIN t                         \* KeyError, caught
         THEN "geo_enabled" \notin DOMAIN t.user
    ELSE IF t.place = NULL THEN TRUE                        \* TypeError, line 151
    ELSE IF "bounding_box" \notin DOMAIN t.place[1]         \* KeyError, caught
         THEN "geo_enabled" \notin DOMAIN t.user
    ELSE t.place[1].bounding_box = NULL                     \* TypeError, line 151

HasExtended(t, k) == "extended_tweet" \in DOMAIN t /\ k \in DOMAIN t.extended_tweet

\* lines 167-170
TextRaises(t) == ~HasExtended(t, "full_text") /\ "text" \notin DOMAIN t

Text(t) == IF HasExtended(t, "full_text") THEN t.extended_tweet.full_text ELSE t.text

\* lines 146-147: the first try-block ends normally
GeoIsPoint(t) == t.geo # NULL

\* lines 149-160: the second try-block ends normally
GeoIsBox(t) ==
    ~GeoIsPoint(t) /\ "place" \in DOMAIN t /\ "bounding_box" \in DOMAIN t.place[1]

\* lines 145-165: geo_str and geo_coords are assigned on the path taken
GeoAssigned(t) == GeoIsPoint(t) \/ GeoIsBox(t) \/ t.user.geo_enabled

\* lines 147, 160, 164: geo_str
GeoStr(t) ==
    IF GeoIsPoint(t) THEN Some("POINT")
    ELSE IF GeoIsBox(t) THEN Some("MULTIPOLYGON")
    ELSE NULL

\* lines 155-158: the points written for one polygon, the first one again at the end
Ring(poly) == poly \o <<poly[1]>>

\* lines 150-159: the rings of the MULTIPOLYGON text, in order
GeoRings(t) ==
    LET polys == t.place[1].bounding_box[1].coordinates
    IN  [i \in 1..Len(polys) |-> Ring(polys[i])]

\* str.lower() on ASCII letters
Lower(s) == [i \in 1..Len(s) |-> IF s[i] \in 65..90 THEN s[i] + 32 ELSE s[i]]

Whitespace == {9, 10, 32}

\* str.strip()
RECURSIVE LStrip(_)
LStrip(s) ==
    IF s # <<>> /\ Head(s) \in Whitespace THEN LStrip(Tail(s)) ELSE s

RECURSIVE RStrip(_)
RStrip(s) ==
    IF s # <<>> /\ s[Len(s)] \in Whitespace THEN RStrip(SubSeq(s, 1, Len(s) - 1)) ELSE s

Strip(s) == RStrip(LStrip(s))

\* s.split(',')[-1]
RECURSIVE LastSegment(_)
LastSegment(s) ==
    IF \E i \in 1..Len(s) : s[i] = 44 THEN LastSegment(Tail(s)) ELSE s

\* tweet['place'][k] raises TypeError or KeyError, both caught (lines 172-175, 184-187)
HasPlaceKey(t, k) ==
    "place" \in DOMAIN t /\ t.place # NULL /\ k \in DOMAIN t.place[1]

\* lines 172-175: None.lower() is an AttributeError, which is not caught
CountryRaises(t) == HasPlaceKey(t, "country_code") /\ t.place[1].country_code = NULL

CountryCode(t) ==
    IF HasPlaceKey(t, "country_code") THEN Some(Lower(t.place[1].country_code[1]))
    ELSE NULL

\* lines 177-178: nothing is caught here
StateRaises(t) ==
    /\ CountryCode(t) = Some(<<117, 115>>)
    /\ \/ "full_name" \notin DOMAIN t.place[1]
       \/ t.place[1].full_name = NULL

\* the last segment taken without trimming it
StateCodeUntrimmed(t) ==
    IF CountryCode(t) = Some(<<117, 115>>)
    THEN LET state_code == Lower(LastSegment(t.place[1].full_name[1]))
         IN  IF Len(state_code) > 2 THEN NULL ELSE Some(state_code)
    ELSE NULL

\* lines 177-182
StateCode(t) ==
    IF CountryCode(t) = Some(<<117, 115>>)
    THEN LET state_code == Lower(Strip(LastSegment(t.place[1].full_name[1])))
         IN  IF Len(state_code) > 2 THEN NULL ELSE Some(state_code)
    ELSE NULL

\* lines 184-187
PlaceName(t) == IF HasPlaceKey(t, "full_name") THEN t.place[1].full_name ELSE NULL

\* lines 145-187: an exception leaves the field extraction
PrepareRaises(t) ==
    GeoRaises(t) \/ TextRaises(t) \/ CountryRaises(t) \/ StateRaises(t)

HasExtendedEntity(t, k) ==
    HasExtended(t, "entities") /\ k \in DOMAIN t.extended_tweet.entities

HasEntity(t, k) == "entities" \in DOMAIN t /\ k \in DOMAIN t.entities

\* lines 268-271, 288-291
EntityList(t, k) ==
    IF HasExtendedEntity(t, k) THEN t.extended_tweet.entities[k] ELSE t.entities[k]

EntityRaises(t, k) == ~HasExtendedEntity(t, k) /\ ~HasEntity(t, k)

\* lines 316-323
TagsExtended(t) == HasExtendedEntity(t, "hashtags") /\ HasExtendedEntity(t, "symbols")

TagsRaises(t) == ~TagsExtended(t) /\ ~(HasEntity(t, "hashtags") /\ HasEntity(t, "symbols"))

Prefixed(c, list) == [i \in 1..Len(list) |-> <<c>> \o list[i].text]

\* the cashtags prefixed like the hashtags
TagListOnePrefix(t) ==
    LET e == IF TagsExtended(t) THEN t.extended_tweet.entities ELSE t.entities
    IN  Prefixed(35, e.hashtags) \o Prefixed(35, e.symbols)

\* line 323
TagList(t) ==
    LET e == IF TagsExtended(t) THEN t.extended_tweet.entities ELSE t.entities
    IN  Prefixed(35, e.hashtags) \o Prefixed(36, e.symbols)

\* lines 338-344
MediaList(t) ==
    IF HasExtended(t, "extended_entities")
       /\ "media" \in DOMAIN t.extended_tweet.extended_entities
    THEN t.extended_tweet.extended_entities.media
    ELSE IF "extended_entities" \in DOMAIN t /\ "media" \in DOMAIN t.extended_entities
    THEN t.extended_entities.media
    ELSE <<>>

\* the four association loops in program order, then the end of the with-block
Succ(stage) ==
    CASE stage = "urls" -> "mentions"
      [] stage = "mentions" -> "tags"
      [] stage = "tags" -> "media"
      [] stage = "media" -> "commit"

Items(t, stage) ==
    CASE stage = "urls" -> EntityList(t, "urls")
      [] stage = "mentions" -> EntityList(t, "user_mentions")
      [] stage = "tags" -> TagList(t)
      [] stage = "media" -> MediaList(t)

StageRaises(t, stage) ==
    CASE stage = "urls" -> EntityRaises(t, "urls")
      [] stage = "mentions" -> EntityRaises(t, "user_mentions")
      [] stage = "tags" -> TagsRaises(t)
      [] stage = "media" -> FALSE

\* control reaches `stage`: the next statement to execute, or the exception
RECURSIVE Enter(_, _)
Enter(t, stage) ==
    IF stage = "commit" THEN [pc |-> "commit", idx |-> 0]
    ELSE IF StageRaises(t, stage) THEN [pc |-> "raise", idx |-> 0]
    ELSE IF Len(Items(t, stage)) = 0 THEN Enter(t, Succ(stage))
    ELSE [pc |-> stage, idx |-> 1]

\* a loop that is left after its first iteration
AfterFirstOnly(t, stage, i) == Enter(t, Succ(stage))

\* control leaves the body of iteration i of `stage`
After(t, stage, i) ==
    IF i < Len(Items(t, stage)) THEN [pc |-> stage, idx |-> i + 1]
    ELSE Enter(t, Succ(stage))

(***************************************************************************)
(* The rows each statement of insert_tweet writes.                         *)
(***************************************************************************)
\* lines 124-140: the profile columns are read from the tweet, not from tweet['user']
UserRow(t, id_urls) ==
    [id_users |-> Bigint(Str(t.user.id)),
     created_at |-> Get(t, "created_at"),
     screen_name |-> Get(t, "screen_name"),
     id_urls |-> id_urls]

\* lines 191-196, 295-300: INSERT INTO users (id_users), every other column null
StubRow(id) ==
    [id_users |-> id, created_at |-> NULL, screen_name |-> NULL, id_urls |-> NULL]

\* line 249: str(x) if x else None
ReplyTo(t) ==
    LET x == Get(t, "in_reply_to_user_id")
    IN  IF x # NULL /\ x[1] # 0 THEN Some(Bigint(Str(x[1]))) ELSE NULL

\* lines 244-263
TweetRow(t) ==
    [id_tweets |-> Bigint(Str(t.id)),
     id_users |-> Bigint(Str(t.user.id)),
     created_at |-> Get(t, "created_at"),
     in_reply_to_user_id |-> ReplyTo(t),
     text |-> remove_nulls(Text(t)),
     country_code |-> remove_nulls(CountryCode(t)),
     state_code |-> remove_nulls(StateCode(t)),
     place_name |-> remove_nulls(PlaceName(t)),
     geo |-> NULL]

\* lines 280-283
TweetUrlRow(t, id_urls) == [id_tweets |-> t.id, id_urls |-> id_urls]

\* lines 308-311
MentionRow(t, i) ==
    [id_tweets |-> t.id, id_users |-> EntityList(t, "user_mentions")[i].id]

\* lines 330-333
TagRow(t, i) == [id_tweets |-> t.id, tag |-> remove_nulls(Some(TagList(t)[i]))]

\* lines 353-357
MediaRow(t, i, id_urls) ==
    [id_tweets |-> t.id, id_urls |-> id_urls, type |-> remove_nulls(MediaList(t)[i].type)]

\* the argument of get_id_urls at its three call sites (lines 85, 274, 347)
UrlArg(t, site, i) ==
    CASE site = "user_url" -> t.user.url[1]
      [] site = "urls" -> EntityList(t, "urls")[i].expanded_url
      [] site = "media" -> MediaList(t)[i].media_url

UrlSites == {"user_url", "urls", "media"}

SelectOf(site) ==
    CASE site = "user_url" -> "user_url_sel"
      [] site = "urls" -> "urls_sel"
      [] site = "media" -> "media_sel"

\* the statement after get_id_urls returns at each call site
ReturnTo(site) ==
    CASE site = "user_url" -> "user"
      [] site = "urls" -> "urls_link"
      [] site = "media" -> "media_link"

\* the INSERT (table, row) writer w is about to execute, if its next statement is one
Pending(w) ==
    LET t == cur[w]
        p == pc[w]
    IN  CASE p \in UrlSites ->
               {<<"urls", [id_urls |-> seq + 1, url |-> UrlArg(t, p, idx[w])]>>}
          [] p = "user" -> {<<"users", UserRow(t, user_id_urls[w])>>}
          [] p = "reply" ->
               {<<"users", StubRow(Bigint(Str(t.in_reply_to_user_id[1])))>>}
          [] p = "tweet" -> {<<"tweets", TweetRow(t)>>}
          [] p = "urls_link" -> {<<"tweet_urls", TweetUrlRow(t, res[w][1])>>}
          [] p = "mentions" ->
               {<<"users", StubRow(EntityList(t, "user_mentions")[idx[w]].id)>>}
          [] p = "mentions_link" -> {<<"tweet_mentions", MentionRow(t, idx[w])>>}
          [] p = "tags" -> {<<"tweet_tags", TagRow(t, idx[w])>>}
          [] p = "media_link" -> {<<"tweet_media", MediaRow(t, idx[w], res[w][1])>>}
          [] OTHER -> {}

\* a conflicting row of a transaction still in progress makes the INSERT wait
WaitsFor(w) == UNION {Holders(w, ins[1], ins[2]) : ins \in Pending(w)}

Blocked(w) == WaitsFor(w) # {}

InCycle(w) ==
    LET Wait == [v \in Writers |-> WaitsFor(v)]
    IN  w \in ReachFrom(Wait[w], Wait)

\* INSERT ... ON CONFLICT DO NOTHING by w: the writes of w afterwards
OnConflictDoNothing(w, table, row) ==
    IF Conflicts(View(w), table, row) THEN tx[w]
    ELSE [tx[w] EXCEPT ![table] = @ \cup {row}]

Goto(w, pos) ==
    /\ pc' = [pc EXCEPT ![w] = pos.pc]
    /\ idx' = [idx EXCEPT ![w] = pos.idx]
    /\ at' = IF pos.pc = "raise" THEN [at EXCEPT ![w] = pc[w]] ELSE at

At(p, i) == [pc |-> p, idx |-> i]

(***************************************************************************)
(* Initial state: an empty database, every loader between two records.     *)
(***************************************************************************)
Init ==
    /\ db = EmptyStore
    /\ tx = [w \in Writers |-> EmptyStore]
    /\ pc = [w \in Writers |-> "idle"]
    /\ cur = [w \in Writers |-> Tweet1]
    /\ idx = [w \in Writers |-> 0]
    /\ res = [w \in Writers |-> NULL]
    /\ user_id_urls = [w \in Writers |-> NULL]
    /\ seq = 0
    /\ out = [w \in Writers |-> "None"]
    /\ at = [w \in Writers |-> "none"]
    /\ calls = 0

\* the existence check bound to the author's id instead of the tweet's
FoundByAuthor(w, t) ==
    \E r \in View(w).tweets : r.id_tweets = Bigint(Str(t.user.id))

\* lines 69-74: is the tweet already in the DB
Found(w, t) ==
    \E r \in View(w).tweets : r.id_tweets = Bigint(Str(t.id))

\* the existence check without its return: a stored tweet is processed again
CheckExistsNoReturn(w, t) ==
    /\ pc[w] = "idle"
    /\ calls < MaxIngests
    /\ calls' = calls + 1
    /\ cur' = [cur EXCEPT ![w] = t]
    /\ res' = [res EXCEPT ![w] = NULL]
    /\ user_id_urls' = [user_id_urls EXCEPT ![w] = NULL]
    /\ out' = [out EXCEPT ![w] = IF Found(w, t) THEN "Skipped" ELSE "Running"]
    /\ pc' = [pc EXCEPT ![w] = IF t.user.url = NULL THEN "user" ELSE "user_url"]
    /\ idx' = [idx EXCEPT ![w] = 0]
    /\ at' = [at EXCEPT ![w] = "none"]
    /\ UNCHANGED <<db, tx, seq>>

\* lines 64-85: begin the transaction, skip a stored tweet, else go to step 2
CheckExists(w, t) ==
    /\ pc[w] = "idle"
    /\ calls < MaxIngests
    /\ calls' = calls + 1
    /\ cur' = [cur EXCEPT ![w] = t]
    /\ res' = [res EXCEPT ![w] = NULL]
    /\ user_id_urls' = [user_id_urls EXCEPT ![w] = NULL]
    /\ IF Found(w, t)
       THEN /\ out' = [out EXCEPT ![w] = "Skipped"]
            /\ UNCHANGED <<pc, idx>>
       ELSE /\ out' = [out EXCEPT ![w] = "Running"]
            /\ pc' = [pc EXCEPT ![w] = IF t.user.url = NULL THEN "user" ELSE "user_url"]
            /\ idx' = [idx EXCEPT ![w] = 0]
    /\ at' = [at EXCEPT ![w] = "none"]
    /\ UNCHANGED <<db, tx, seq>>

\* get-or-create that does not wait for a concurrent writer of the same url
UrlInsertNoWait(w) ==
    /\ pc[w] \in UrlSites
    /\ LET url == UrlArg(cur[w], pc[w], idx[w])
           row == [id_urls |-> seq + 1, url |-> url]
       IN  IF Conflicts(View(w), "urls", row)
           THEN /\ res' = [res EXCEPT ![w] = NULL]
                /\ pc' = [pc EXCEPT ![w] = SelectOf(pc[w])]
                /\ UNCHANGED <<tx, seq, user_id_urls>>
           ELSE /\ tx' = [tx EXCEPT ![w] = OnConflictDoNothing(w, "urls", row)]
                /\ seq' = seq + 1
                /\ res' = [res EXCEPT ![w] = Some(row.id_urls)]
                /\ user_id_urls' =
                     IF pc[w] = "user_url"
                     THEN [user_id_urls EXCEPT ![w] = Some(row.id_urls)]
                     ELSE user_id_urls
                /\ pc' = [pc EXCEPT ![w] = ReturnTo(pc[w])]
    /\ UNCHANGED <<db, cur, idx, out, at, calls>>

\* an INSERT that takes the uncommitted row of another transaction for a
\* conflict at once, instead of waiting for that transaction to end
UrlInsertDirtyConflict(w) ==
    /\ pc[w] \in UrlSites
    /\ LET url == UrlArg(cur[w], pc[w], idx[w])
           row == [id_urls |-> seq + 1, url |-> url]
       IN  IF Conflicts(View(w), "urls", row) \/ Holders(w, "urls", row) # {}
           THEN /\ res' = [res EXCEPT ![w] = NULL]
                /\ pc' = [pc EXCEPT ![w] = SelectOf(pc[w])]
                /\ UNCHANGED <<tx, seq, user_id_urls>>
           ELSE /\ tx' = [tx EXCEPT ![w] = OnConflictDoNothing(w, "urls", row)]
                /\ seq' = seq + 1
                /\ res' = [res EXCEPT ![w] = Some(row.id_urls)]
                /\ user_id_urls' =
                     IF pc[w] = "user_url"
                     THEN [user_id_urls EXCEPT ![w] = Some(row.id_urls)]
                     ELSE user_id_urls
                /\ pc' = [pc EXCEPT ![w] = ReturnTo(pc[w])]
    /\ UNCHANGED <<db, cur, idx, out, at, calls>>

\* lines 35-43 of get_id_urls: INSERT INTO urls ... ON CONFLICT DO NOTHING RETURNING
UrlInsert(w) ==
    /\ pc[w] \in UrlSites
    /\ ~Blocked(w)
    /\ LET url == UrlArg(cur[w], pc[w], idx[w])
           row == [id_urls |-> seq + 1, url |-> url]
       IN  IF Conflicts(View(w), "urls", row)
           THEN /\ res' = [res EXCEPT ![w] = NULL]
                /\ pc' = [pc EXCEPT ![w] = SelectOf(pc[w])]
                /\ UNCHANGED <<tx, seq, user_id_urls>>
           ELSE /\ tx' = [tx EXCEPT ![w] = OnConflictDoNothing(w, "urls", row)]
                /\ seq' = seq + 1
                /\ res' = [res EXCEPT ![w] = Some(row.id_urls)]
                /\ user_id_urls' =
                     IF pc[w] = "user_url"
                     THEN [user_id_urls EXCEPT ![w] = Some(row.id_urls)]
                     ELSE user_id_urls
                /\ pc' = [pc EXCEPT ![w] = ReturnTo(pc[w])]
    /\ UNCHANGED <<db, cur, idx, out, at, calls>>

\* the fallback SELECT without its WHERE clause: the first row of urls, whatever its url
UrlSelectAnyRow(w) ==
    /\ \E site \in UrlSites :
         /\ pc[w] = SelectOf(site)
         /\ LET rows == View(w).urls
            IN  IF rows = {}
                THEN /\ pc' = [pc EXCEPT ![w] = "raise"]
                     /\ at' = [at EXCEPT ![w] = pc[w]]
                     /\ UNCHANGED <<res, user_id_urls>>
                ELSE \E r \in rows :
                       /\ \A q \in rows : r.id_urls <= q.id_urls
                       /\ at' = at
                       /\ res' = [res EXCEPT ![w] = Some(r.id_urls)]
                       /\ user_id_urls' =
                            IF site = "user_url"
                            THEN [user_id_urls EXCEPT ![w] = Some(r.id_urls)]
                            ELSE user_id_urls
                       /\ pc' = [pc EXCEPT ![w] = ReturnTo(site)]
    /\ UNCHANGED <<db, tx, cur, idx, seq, out, calls>>

\* lines 46-54 of get_id_urls: SELECT the existing row; res[0] of no row raises
UrlSelect(w) ==
    /\ \E site \in UrlSites :
         /\ pc[w] = SelectOf(site)
         /\ LET url == UrlArg(cur[w], site, idx[w])
                rows == {r \in View(w).urls : r.url = url}
            IN  IF rows = {}
                THEN /\ pc' = [pc EXCEPT ![w] = "raise"]
                     /\ at' = [at EXCEPT ![w] = pc[w]]
                     /\ UNCHANGED <<res, user_id_urls>>
                ELSE \E r \in rows :
                       /\ at' = at
                       /\ res' = [res EXCEPT ![w] = Some(r.id_urls)]
                       /\ user_id_urls' =
                            IF site = "user_url"
                            THEN [user_id_urls EXCEPT ![w] = Some(r.id_urls)]
                            ELSE user_id_urls
                       /\ pc' = [pc EXCEPT ![w] = ReturnTo(site)]
    /\ UNCHANGED <<db, tx, cur, idx, seq, out, calls>>

\* one INSERT ... ON CONFLICT DO NOTHING statement of insert_tweet
Execute(w, table, row) ==
    /\ ~Blocked(w)
    /\ tx' = [tx EXCEPT ![w] = OnConflictDoNothing(w, table, row)]

\* the author insert as an upsert that writes its row over an existing one
InsertUserOverwrites(w) ==
    /\ pc[w] = "user"
    /\ ~Blocked(w)
    /\ tx' = [tx EXCEPT ![w].users = @ \cup {UserRow(cur[w], user_id_urls[w])}]
    /\ Goto(w, At("prepare", 0))
    /\ UNCHANGED <<db, cur, res, user_id_urls, seq, out, calls>>

\* lines 87-140: INSERT INTO users (...) ON CONFLICT (id_users) DO NOTHING
InsertUser(w) ==
    /\ pc[w] = "user"
    /\ Execute(w, "users", UserRow(cur[w], user_id_urls[w]))
    /\ Goto(w, At("prepare", 0))
    /\ UNCHANGED <<db, cur, res, user_id_urls, seq, out, calls>>

\* lines 145-190: field extraction; an exception not caught there leaves the with-block
Prepare(w) ==
    /\ pc[w] = "prepare"
    /\ Goto(w, IF PrepareRaises(cur[w]) THEN At("raise", 0)
               ELSE IF Get(cur[w], "in_reply_to_user_id") # NULL THEN At("reply", 0)
               ELSE At("tweet", 0))
    /\ UNCHANGED <<db, tx, cur, res, user_id_urls, seq, out, calls>>

\* the reply-target stub written over an existing users row
InsertReplyStubOverwrites(w) ==
    /\ pc[w] = "reply"
    /\ ~Blocked(w)
    /\ tx' = [tx EXCEPT ![w].users =
                 @ \cup {StubRow(Bigint(Str(cur[w].in_reply_to_user_id[1])))}]
    /\ Goto(w, At("tweet", 0))
    /\ UNCHANGED <<db, cur, res, user_id_urls, seq, out, calls>>

\* lines 190-196: the in_reply_to user, unhydrated
InsertReplyStub(w) ==
    /\ pc[w] = "reply"
    /\ Execute(w, "users", StubRow(Bigint(Str(cur[w].in_reply_to_user_id[1]))))
    /\ Goto(w, At("tweet", 0))
    /\ UNCHANGED <<db, cur, res, user_id_urls, seq, out, calls>>

\* a plain INSERT INTO tweets: a duplicate id_tweets raises a unique violation
InsertTweetRaises(w) ==
    /\ pc[w] = "tweet"
    /\ ~Blocked(w)
    /\ IF Conflicts(View(w), "tweets", TweetRow(cur[w]))
       THEN Goto(w, At("raise", 0)) /\ tx' = tx
       ELSE Goto(w, Enter(cur[w], "urls"))
            /\ tx' = [tx EXCEPT ![w] = OnConflictDoNothing(w, "tweets", TweetRow(cur[w]))]
    /\ UNCHANGED <<db, cur, res, user_id_urls, seq, out, calls>>

\* lines 201-271: INSERT INTO tweets ... ON CONFLICT DO NOTHING
InsertTweet(w) ==
    /\ pc[w] = "tweet"
    /\ Execute(w, "tweets", TweetRow(cur[w]))
    /\ Goto(w, Enter(cur[w], "urls"))
    /\ UNCHANGED <<db, cur, res, user_id_urls, seq, out, calls>>

\* lines 275-283
LinkUrl(w) ==
    /\ pc[w] = "urls_link"
    /\ Execute(w, "tweet_urls", TweetUrlRow(cur[w], res[w][1]))
    /\ Goto(w, After(cur[w], "urls", idx[w]))
    /\ UNCHANGED <<db, cur, res, user_id_urls, seq, out, calls>>

\* the mention loop without its unhydrated user insert
SkipMentionStub(w) ==
    /\ pc[w] = "mentions"
    /\ tx' = tx
    /\ Goto(w, At("mentions_link", idx[w]))
    /\ UNCHANGED <<db, cur, res, user_id_urls, seq, out, calls>>

\* lines 293-300: the mentioned user, unhydrated
InsertMentionStub(w) ==
    /\ pc[w] = "mentions"
    /\ Execute(w, "users", StubRow(EntityList(cur[w], "user_mentions")[idx[w]].id))
    /\ Goto(w, At("mentions_link", idx[w]))
    /\ UNCHANGED <<db, cur, res, user_id_urls, seq, out, calls>>

\* lines 302-311
LinkMention(w) ==
    /\ pc[w] = "mentions_link"
    /\ Execute(w, "tweet_mentions", MentionRow(cur[w], idx[w]))
    /\ Goto(w, After(cur[w], "mentions", idx[w]))
    /\ UNCHANGED <<db, cur, res, user_id_urls, seq, out, calls>>

\* lines 324-333
InsertTag(w) ==
    /\ pc[w] = "tags"
    /\ Execute(w, "tweet_tags", TagRow(cur[w], idx[w]))
    /\ Goto(w, After(cur[w], "tags", idx[w]))
    /\ UNCHANGED <<db, cur, res, user_id_urls, seq, out, calls>>

\* lines 348-357
LinkMedia(w) ==
    /\ pc[w] = "media_link"
    /\ Execute(w, "tweet_media", MediaRow(cur[w], idx[w], res[w][1]))
    /\ Goto(w, After(cur[w], "media", idx[w]))
    /\ UNCHANGED <<db, cur, res, user_id_urls, seq, out, calls>>

\* the transaction ends: its rows are published together, or dropped together
Finish(w, store, outcome) ==
    /\ db' = store
    /\ tx' = [tx EXCEPT ![w] = EmptyStore]
    /\ out' = [out EXCEPT ![w] = outcome]
    /\ pc' = [pc EXCEPT ![w] = "idle"]
    /\ idx' = [idx EXCEPT ![w] = 0]
    /\ UNCHANGED <<cur, res, user_id_urls, seq, calls>>

\* a COMMIT that publishes the tweets row without the rest of the transaction
CommitTweetsOnly(w) ==
    /\ pc[w] = "commit"
    /\ Finish(w, [db EXCEPT !.tweets = @ \cup tx[w].tweets], "Inserted")
    /\ at' = at

\* line 64: the with-block ends normally and COMMITs
Commit(w) ==
    /\ pc[w] = "commit"
    /\ Finish(w, Merge(db, tx[w]), "Inserted")
    /\ at' = at

\* no transaction around the statements: what ran before the exception stays
RollbackKeepsRows(w) ==
    /\ pc[w] = "raise"
    /\ Finish(w, Merge(db, tx[w]), "Error")
    /\ at' = at

\* line 64: an exception leaves the with-block, which ROLLBACKs and re-raises
Rollback(w) ==
    /\ pc[w] = "raise"
    /\ Finish(w, db, "Error")
    /\ at' = at

\* a writer found in a wait-for cycle gets "deadlock detected" from its INSERT;
\* the exception leaves the with-block (line 64) and its transaction is rolled back
DeadlockAbort(w) ==
    /\ InCycle(w)
    /\ Finish(w, db, "Deadlock")
    /\ at' = [at EXCEPT ![w] = pc[w]]

Next ==
    \E w \in Writers :
        \/ \E t \in Tweets : CheckExists(w, t)
        \/ UrlInsert(w)
        \/ UrlSelect(w)
        \/ InsertUser(w)
        \/ Prepare(w)
        \/ InsertReplyStub(w)
        \/ InsertTweet(w)
        \/ LinkUrl(w)
        \/ InsertMentionStub(w)
        \/ LinkMention(w)
        \/ InsertTag(w)
        \/ LinkMedia(w)
        \/ Commit(w)
        \/ Rollback(w)
        \/ DeadlockAbort(w)

Spec == Init /\ [][Next]_vars

(***************************************************************************)
(* One loader alone, fed records of every shape the field extraction tells *)
(* apart.  The records share one tweet id, so that a record arriving after *)
(* a stored one is a re-delivery with other content.                       *)
(***************************************************************************)
\* a decoded record with some keys replaced or added, and with keys left out
With(t, fields) ==
    [k \in DOMAIN t \cup DOMAIN fields |-> IF k \in DOMAIN fields THEN fields[k] ELSE t[k]]

Without(t, keys) == [k \in DOMAIN t \ keys |-> t[k]]

\* "foo", "BAR"
Foo == <<102, 111, 111>>

Bar == <<66, 65, 82>>

\* a record with a point, no place, no url and empty entity lists
Plain ==
    [id |-> 5,
     created_at |-> Some(<<53>>),
     user |-> [id |-> 50, url |-> NULL, screen_name |-> Some(<<119>>),
               geo_enabled |-> FALSE],
     geo |-> Some([coordinates |-> <<3, 4>>]),
     place |-> NULL,
     text |-> Some(<<116>>),
     in_reply_to_user_id |-> NULL,
     entities |-> [urls |-> <<>>, user_mentions |-> <<>>,
                   hashtags |-> <<>>, symbols |-> <<>>]]

GeoEnabled(t, b) == With(t, [user |-> With(t.user, [geo_enabled |-> b])])

Box == [coordinates |-> << <<<<0, 0>>, <<0, 1>>, <<1, 1>>>>, <<<<2, 2>>, <<3, 3>>>> >>]

\* the geo, place and geo_enabled variants lines 145-165 tell apart
GeoShapes ==
    LET NoPoint == With(Plain, [geo |-> NULL])
    IN  {Plain,
         With(Plain, [place |-> Some([bounding_box |-> Some(Box)])]),
         With(NoPoint, [place |-> Some([bounding_box |-> Some(Box)])]),
         GeoEnabled(With(NoPoint, [place |-> Some([name |-> <<110>>])]), TRUE),
         With(NoPoint, [place |-> Some([name |-> <<110>>])]),
         GeoEnabled(Without(NoPoint, {"place"}), TRUE),
         Without(NoPoint, {"place"}),
         GeoEnabled(NoPoint, TRUE),
         NoPoint,
         With(NoPoint, [place |-> Some([bounding_box |-> NULL])]),
         Without(Plain, {"geo"})}

Place(fields) == With(Plain, [place |-> Some(fields)])

\* "B, MA"
BostonMA == <<66, 44, 32, 77, 65>>

\* the country codes and full names lines 172-187 tell apart
PlaceShapes ==
    {Place([country_code |-> Some(<<85, 83>>), full_name |-> Some(BostonMA)]),
     Place([country_code |-> Some(<<117, 115>>),
            full_name |-> Some(<<66, 44, 77, 44, 9, 77, 97, 32, 10>>)]),
     Place([country_code |-> Some(<<85, 115>>), full_name |-> Some(<<78, 89>>)]),
     Place([country_code |-> Some(<<85, 83>>),
            full_name |-> Some(<<84, 44, 32, 85, 83, 65>>)]),
     Place([country_code |-> Some(<<85, 83>>), full_name |-> Some(<<84, 44, 32, 85, 32, 83>>)]),
     Place([country_code |-> Some(<<85, 83>>), full_name |-> Some(<<66, 44, 32>>)]),
     Place([country_code |-> Some(<<70, 82>>), full_name |-> Some(<<80, 44, 32, 70, 82>>)]),
     Place([country_code |-> Some(<<85, 83, 65>>), full_name |-> Some(BostonMA)]),
     Place([full_name |-> Some(BostonMA)]),
     Place([country_code |-> Some(<<70, 82>>)]),
     Place([country_code |-> NULL, full_name |-> Some(BostonMA)]),
     Place([country_code |-> Some(<<85, 83>>)]),
     Place([country_code |-> Some(<<85, 83>>), full_name |-> NULL])}

Tags(hashtags, symbols) ==
    [urls |-> <<>>, user_mentions |-> <<>>,
     hashtags |-> [i \in 1..Len(hashtags) |-> [text |-> hashtags[i]]],
     symbols |-> [i \in 1..Len(symbols) |-> [text |-> symbols[i]]]]

\* hashtags [foo], cashtags [BAR]
FooBar == With(Plain, [entities |-> Tags(<<Foo>>, <<Bar>>)])

\* the same hashtag twice, and a cashtag with the hashtag's text
Repeated == With(Plain, [entities |-> Tags(<<Foo, Bar, Foo>>, <<Foo>>)])

\* the entity lists lines 268-271, 288-291 and 316-323 tell apart
EntityShapes ==
    {FooBar,
     Repeated,
     With(Plain, [entities |-> Tags(<<<<102, NUL>>, <<102>>>>, <<>>)]),
     With(FooBar, [extended_tweet |-> [full_text |-> Some(<<116, 116>>)]]),
     With(FooBar, [extended_tweet |->
                     [full_text |-> Some(<<116, 116>>),
                      entities |-> Tags(<<Bar>>, <<Foo, Foo>>)]]),
     With(FooBar, [extended_tweet |->
                     [entities |-> [hashtags |-> <<[text |-> Bar]>>]]]),
     With(Without(Plain, {"entities"}),
          [extended_tweet |-> [entities |-> Tags(<<Foo>>, <<>>)]]),
     With(Plain, [entities |-> [urls |-> <<>>, user_mentions |-> <<>>]]),
     With(Plain, [entities |-> [urls |-> <<>>]]),
     Without(Plain, {"entities"}),
     Without(Plain, {"text"}),
     With(Plain, [in_reply_to_user_id |-> Some(60),
                  entities |-> With(Plain.entities,
                                    [urls |-> <<[expanded_url |-> UrlA], [expanded_url |-> UrlA]>>,
                                     user_mentions |-> <<[id |-> 60], [id |-> 50]>>])])}

Media(url) == [media |-> <<[media_url |-> url, type |-> Some(<<112>>)]>>]

\* media under the base entities only
BaseMedia == With(Plain, [entities |-> With(Plain.entities, Media(UrlA))])

\* the places lines 338-344 look for a media list in
MediaShapes ==
    {BaseMedia,
     With(Plain, [extended_entities |-> Media(UrlB)]),
     With(BaseMedia, [extended_entities |-> Media(UrlB)]),
     With(BaseMedia, [extended_entities |-> Media(UrlB),
                      extended_tweet |-> [extended_entities |-> Media(<<99>>)]]),
     With(BaseMedia, [extended_tweet |-> [extended_entities |-> Media(<<99>>)]]),
     With(Plain, [extended_entities |-> [x |-> 0],
                  extended_tweet |-> [extended_entities |-> [x |-> 0]]])}

\* a url with the character 0 in it
NulUrl ==
    With(Plain, [entities |-> With(Plain.entities,
                                   [urls |-> <<[expanded_url |-> <<97, NUL, 98>>]>>])])

\* profile strings with the character 0 in them
NulProfile ==
    With(Plain, [user |-> With(Plain.user, [url |-> Some(<<NUL, 97>>)]),
                 screen_name |-> Some(<<119, NUL>>)])

\* records with the character 0 in strings that are stored
NulShapes ==
    {NulUrl,
     NulProfile,
     With(Place([country_code |-> Some(<<85, NUL, 83>>),
                 full_name |-> Some(<<66, 44, NUL, 77, 65, NUL>>)]),
          [text |-> Some(<<NUL, 116, NUL, NUL>>),
           extended_entities |->
               [media |-> <<[media_url |-> <<NUL>>, type |-> Some(<<NUL, 112>>)]>>]])}

Shapes == GeoShapes \cup PlaceShapes \cup EntityShapes \cup MediaShapes \cup NulShapes

\* the loader that runs alone
Loader == 1

NextShapes ==
    \/ \E t \in Shapes : CheckExists(Loader, t)
    \/ UrlInsert(Loader)
    \/ UrlSelect(Loader)
    \/ InsertUser(Loader)
    \/ Prepare(Loader)
    \/ InsertReplyStub(Loader)
    \/ InsertTweet(Loader)
    \/ LinkUrl(Loader)
    \/ InsertMentionStub(Loader)
    \/ LinkMention(Loader)
    \/ InsertTag(Loader)
    \/ LinkMedia(Loader)
    \/ Commit(Loader)
    \/ Rollback(Loader)

SpecShapes == Init /\ [][NextShapes]_vars

(***************************************************************************)
(* Properties.                                                             *)
(***************************************************************************)
Posted(store, t) == \E r \in store.tweets : r.id_tweets = t.id

Succeeded(w) == pc[w] = "idle" /\ out[w] \in {"Inserted", "Skipped"}

\* C1 (idempotency): when a writer whose last call insert_tweet(r) returned
\* normally calls insert_tweet(r) again, the second call returns at the
\* existence check and no table, open transaction or sequence changes; and the
\* committed tweets table never holds two rows with one id_tweets.
C1_Idempotent ==
    /\ [][\A w \in Writers :
            (Succeeded(w) /\ CheckExists(w, cur[w]))
                => /\ out'[w] = "Skipped"
                   /\ pc'[w] = "idle"
                   /\ db' = db /\ tx' = tx /\ seq' = seq]_vars
    /\ [](\A r1, r2 \in db.tweets : r1.id_tweets = r2.id_tweets => r1 = r2)

\* writer 1 alone made two calls: it inserted Tweet1, then skipped it
C1_Witness ==
    /\ calls = 2
    /\ out[1] = "Skipped" /\ cur[1] = Tweet1
    /\ \A w \in Writers \ {1} : out[w] = "None"
    /\ TweetRow(Tweet1) \in db.tweets
    /\ Cardinality(db.tweet_urls) = 2

HasUser(store, id) == \E u \in store.users : u.id_users = id

UserRows(store, id) == {u \in store.users : u.id_users = id}

UrlIds(store, url) == {u.id_urls : u \in {r \in store.urls : r.url = url}}

Range(list) == {list[i] : i \in 1..Len(list)}

\* the association rows of tweet t, with the url ids the store gives its urls
Associations(store, t) ==
    [tweet_urls |->
        {TweetUrlRow(t, id) : id \in
            UNION {UrlIds(store, u.expanded_url) : u \in Range(EntityList(t, "urls"))}},
     tweet_mentions |->
        {MentionRow(t, i) : i \in 1..Len(EntityList(t, "user_mentions"))},
     tweet_tags |-> {TagRow(t, i) : i \in 1..Len(TagList(t))},
     tweet_media |->
        UNION {{MediaRow(t, i, id) : id \in UrlIds(store, MediaList(t)[i].media_url)} :
                 i \in 1..Len(MediaList(t))}]

AssocTables == {"tweet_urls", "tweet_mentions", "tweet_tags", "tweet_media"}

RowsOf(store, table, t) == {r \in store[table] : r.id_tweets = t.id}

\* C2 (atomic visibility): in the committed rows, which are what every other
\* operation reads, a tweet is either wholly there (its tweets row, its
\* author's row, the stub rows and url rows it needs, and exactly its url,
\* mention, tag and media associations) or not at all (no tweets row and no
\* association row); and rows become committed only by one transaction
\* publishing all it wrote in one step.
C2_AtomicVisibility ==
    /\ [](\A t \in Tweets :
            IF Posted(db, t)
            THEN /\ TweetRow(t) \in db.tweets
                 /\ HasUser(db, t.user.id)
                 /\ ReplyTo(t) # NULL => HasUser(db, ReplyTo(t)[1])
                 /\ \A m \in Range(EntityList(t, "user_mentions")) : HasUser(db, m.id)
                 /\ \A u \in Range(EntityList(t, "urls")) :
                        UrlIds(db, u.expanded_url) # {}
                 /\ \A m \in Range(MediaList(t)) : UrlIds(db, m.media_url) # {}
                 /\ \A a \in AssocTables :
                        RowsOf(db, a, t) = Associations(db, t)[a]
            ELSE \A a \in AssocTables : RowsOf(db, a, t) = {})
    /\ [][\/ db' = db
          \/ \E w \in Writers : /\ pc[w] = "commit"
                                /\ db' = Merge(db, tx[w])
                                /\ tx'[w] = EmptyStore]_vars

\* Tweet2 is committed with its reply stub, two urls, a tag and a media row
\* while another writer is in the middle of its own transaction
C2_Witness ==
    /\ Posted(db, Tweet2)
    /\ Cardinality(RowsOf(db, "tweet_urls", Tweet2)) = 2
    /\ Cardinality(RowsOf(db, "tweet_media", Tweet2)) = 1
    /\ \E w \in Writers : tx[w].tweets # {} /\ tx[w].tweet_urls # {}

Failed(w) == out[w] \in {"Error", "Deadlock"}

\* C3 (abort on failure): the step in which a call fails, by an exception in
\* insert_tweet or by the database aborting its INSERT, leaves the committed
\* rows as they were and drops every row the call had written, so that the
\* writer reads exactly the committed rows again; a tweets row the failed call
\* itself had inserted is not found by a later existence check.
C3_AbortOnFailure ==
    [][\A w \in Writers :
         (out[w] = "Running" /\ Failed(w)')
            => /\ db' = db
               /\ tx'[w] = EmptyStore
               /\ View(w)' = db
               /\ tx[w].tweets # {} => ~Found(w, cur[w])']_vars

\* a call failed at a url resolution after it had inserted its tweets row, and
\* another failed during field extraction, after its author insert
C3_Witness ==
    \E w, v \in Writers :
        /\ out[w] = "Deadlock" /\ at[w] \in {"urls", "media"} /\ ~Posted(db, cur[w])
        /\ out[v] = "Error" /\ at[v] = "prepare"

Stores == {db} \cup {View(w) : w \in Writers}

\* C4 (dimension sharing): the committed urls table, and the urls table as any
\* open transaction sees it, holds at most one row per url string and one url
\* string per id; no two open transactions hold a row for the same url; and
\* the committed rows of every stored tweet that refer to a url string (its
\* tweet_urls and tweet_media rows, a profile url in a users row) carry the id
\* of the one urls row of that string.
C4_DimensionSharing ==
    /\ \A store \in Stores : \A r1, r2 \in store.urls :
            (r1.url = r2.url \/ r1.id_urls = r2.id_urls) => r1 = r2
    /\ \A w, v \in Writers : \A r1 \in tx[w].urls : \A r2 \in tx[v].urls :
            (w # v) => r1.url # r2.url
    /\ \A t \in Tweets : Posted(db, t) =>
          /\ \A u \in Range(EntityList(t, "urls")) :
               /\ Cardinality(UrlIds(db, u.expanded_url)) = 1
               /\ \A id \in UrlIds(db, u.expanded_url) : TweetUrlRow(t, id) \in db.tweet_urls
          /\ \A i \in 1..Len(MediaList(t)) :
               /\ Cardinality(UrlIds(db, MediaList(t)[i].media_url)) = 1
               /\ \A id \in UrlIds(db, MediaList(t)[i].media_url) :
                      MediaRow(t, i, id) \in db.tweet_media
    /\ \A u \in db.users : u.id_urls # NULL =>
          \E t \in Tweets : /\ t.user.id = u.id_users
                            /\ t.user.url # NULL
                            /\ UrlIds(db, t.user.url[1]) = {u.id_urls[1]}

\* Tweet1 and Tweet2, which name the same two urls in opposite orders, are both
\* committed after an aborted transaction had drawn url ids of its own
C4_Witness ==
    /\ Posted(db, Tweet1) /\ Posted(db, Tweet2)
    /\ Cardinality(db.urls) = 2
    /\ Cardinality(db.tweet_urls) = 4
    /\ \E u \in db.users : u.id_urls # NULL
    /\ seq > 2

\* C5 (racing writers both succeed): no writer ever waits in a cycle of
\* writers each waiting for a row of the next, and no call ends with the
\* database aborting it to break such a cycle.
C5_RacingWritersBothSucceed ==
    \A w \in Writers : ~InCycle(w) /\ out[w] # "Deadlock"

\* C6 (racing writers on one post): no two transactions, open or committed,
\* hold a tweets row for the same id; a writer waiting at its tweets INSERT
\* is never part of a wait-for cycle; and when the INSERT finds the row
\* already committed it writes nothing and the call goes on to the statement
\* that follows, without an exception.
C6_PostRace ==
    /\ [](\A r1, r2 \in db.tweets : r1.id_tweets = r2.id_tweets => r1 = r2)
    /\ [](\A w \in Writers : \A r \in tx[w].tweets :
            /\ ~Conflicts(db, "tweets", r)
            /\ \A v \in Writers \ {w} : ~Conflicts(tx[v], "tweets", r))
    /\ [](\A w \in Writers : pc[w] = "tweet" => ~InCycle(w))
    /\ [][\A w \in Writers :
            (pc[w] = "tweet" /\ pc'[w] # "tweet" /\ Posted(db, cur[w]))
               => /\ tx' = tx /\ db' = db
                  /\ out'[w] = "Running"
                  /\ pc'[w] = Enter(cur[w], "urls").pc]_vars

\* a writer that passed the existence check found the row committed by its
\* rival at its own tweets INSERT and went on to the association statements
C6_Witness ==
    \E w \in Writers :
        /\ out[w] = "Running"
        /\ pc[w] \in {"urls", "urls_sel", "urls_link"}
        /\ tx[w].tweets = {}
        /\ TweetRow(cur[w]) \in db.tweets

\* C7 (author referential ordering): in the committed rows and in the rows
\* any open transaction sees, every tweets row has a users row for its author
\* and for its reply-target author, and every tweet_mentions row has a users
\* row for the mentioned author.
C7_AuthorsExist ==
    \A store \in Stores :
        /\ \A r \in store.tweets :
             /\ HasUser(store, r.id_users)
             /\ r.in_reply_to_user_id # NULL => HasUser(store, r.in_reply_to_user_id[1])
        /\ \A m \in store.tweet_mentions : HasUser(store, m.id_users)

\* an open transaction has written a tweets row and a mention, with the users
\* rows of the author and of the mentioned author inserted by itself before
C7_Witness ==
    \E w \in Writers :
        /\ tx[w].tweets # {} /\ tx[w].tweet_mentions # {}
        /\ \A r \in tx[w].tweets : UserRows(tx[w], r.id_users) # {}
        /\ \A m \in tx[w].tweet_mentions : StubRow(m.id_users) \in tx[w].users

HasUrlId(store, id) == \E u \in store.urls : u.id_urls = id

\* C8 (url referential ordering): in the committed rows and in the rows any
\* open transaction sees, every tweet_urls row, tweet_media row and non-null
\* users.id_urls names the id of a urls row; and the id a writer is about to
\* write into such a row is the id of the urls row, visible to it, of the url
\* string it passed to get_id_urls.
C8_UrlsExist ==
    /\ \A store \in Stores :
         /\ \A r \in store.tweet_urls \cup store.tweet_media : HasUrlId(store, r.id_urls)
         /\ \A u \in store.users : u.id_urls # NULL => HasUrlId(store, u.id_urls[1])
    /\ \A w \in Writers :
         /\ pc[w] = "urls_link" =>
              res[w] # NULL /\ res[w][1] \in UrlIds(View(w), UrlArg(cur[w], "urls", idx[w]))
         /\ pc[w] = "media_link" =>
              res[w] # NULL /\ res[w][1] \in UrlIds(View(w), UrlArg(cur[w], "media", idx[w]))
         /\ (pc[w] = "user" /\ cur[w].user.url # NULL) =>
              /\ user_id_urls[w] # NULL
              /\ user_id_urls[w][1] \in UrlIds(View(w), cur[w].user.url[1])

\* a writer is about to link a url whose row another transaction committed,
\* so that get_id_urls took the SELECT path, while a users row with a profile
\* url and a media row are committed
C8_Witness ==
    /\ \E w \in Writers :
         /\ pc[w] = "urls_link"
         /\ UrlIds(tx[w], UrlArg(cur[w], "urls", idx[w])) = {}
    /\ \E u \in db.users : u.id_urls # NULL
    /\ db.tweet_media # {}

\* C9 (hydrated author never downgraded): a committed users row that is not a
\* stub is, after every step, still the only committed row of its id, with
\* every column as before; and a stub insert that finds a row of its id
\* writes nothing.
C9_HydratedKept ==
    [][/\ \A u \in db.users :
            u # StubRow(u.id_users) => UserRows(db', u.id_users) = {u}
       /\ \A w \in Writers :
            (/\ pc[w] \in {"reply", "mentions"}
             /\ pc'[w] \notin {pc[w], "idle"}
             /\ \A ins \in Pending(w) : Conflicts(View(w), ins[1], ins[2]))
                => tx' = tx]_vars

\* the author of Tweet2 has a hydrated row and Tweet1, which mentions that
\* author, was committed too: its stub insert met the hydrated row
C9_Witness ==
    /\ UserRows(db, Tweet2.user.id) = {UserRow(Tweet2, NULL)}
    /\ UserRow(Tweet2, NULL) # StubRow(Tweet2.user.id)
    /\ Posted(db, Tweet1) /\ MentionRow(Tweet1, 1) \in db.tweet_mentions

\* C10 (stub-then-hydrate): when a call commits a tweet whose author's
\* committed users row is a stub, that stub is afterwards still the only
\* committed row of the author, every column but the id null, and the new
\* tweets row that names the author is committed.
C10_StubStays ==
    [][\A w \in Writers :
         (/\ pc[w] = "commit" /\ pc'[w] = "idle"
          /\ ~Posted(db, cur[w])
          /\ StubRow(cur[w].user.id) \in db.users)
            => /\ UserRows(db', cur[w].user.id) = {StubRow(cur[w].user.id)}
               /\ TweetRow(cur[w]) \in db'.tweets]_vars

\* Tweet1, which mentions the author of Tweet2, was committed first; Tweet2 is
\* committed and its author's row is still the stub
C10_Witness ==
    /\ Posted(db, Tweet1) /\ Posted(db, Tweet2)
    /\ UserRows(db, Tweet2.user.id) = {StubRow(Tweet2.user.id)}
    /\ TweetRow(Tweet2).id_users = Tweet2.user.id

HasIdentity(t) == "id" \in DOMAIN t /\ "user" \in DOMAIN t /\ "id" \in DOMAIN t.user

\* C11 (missing fields are not fatal): a call on a record that carries its
\* tweet id and its author's id never ends with an exception raised by
\* insert_tweet's own statements, whatever optional field is missing or null.
C11_MissingFieldsNotFatal ==
    \A w \in Writers : HasIdentity(cur[w]) => out[w] # "Error"

\* C12 (author hydration content): the users row a call has created for its
\* record's author carries the screen name and creation time of the record's
\* user sub-document, and as profile url id the id of the urls row of the
\* author's profile url (null when the author has none).
C12_AuthorHydration ==
    \A w \in Writers : \A u \in tx[w].users :
        u.id_users = cur[w].user.id =>
            /\ u.screen_name = Get(cur[w].user, "screen_name")
            /\ u.created_at = Get(cur[w].user, "created_at")
            /\ IF cur[w].user.url = NULL THEN u.id_urls = NULL
               ELSE /\ u.id_urls # NULL
                    /\ u.id_urls[1] \in UrlIds(View(w), cur[w].user.url[1])

NoNul(s) == s = NULL \/ \A i \in 1..Len(s[1]) : s[1][i] # NUL

\* the string parameters of an INSERT
StringsOf(table, row) ==
    CASE table = "urls" -> {Some(row.url)}
      [] table = "users" -> {row.screen_name, row.created_at}
      [] table = "tweets" ->
           {row.text, row.country_code, row.state_code, row.place_name, row.created_at}
      [] table = "tweet_tags" -> {row.tag}
      [] table = "tweet_media" -> {row.type}
      [] OTHER -> {}

\* C13 (sanitization of everything stored): no string that insert_tweet or
\* get_id_urls is about to pass to an INSERT (text, country and state code,
\* place name, tag, media type, url, author profile string) and no string of
\* a stored row contains the character with code point 0.
C13_Sanitized ==
    /\ \A w \in Writers : \A ins \in Pending(w) :
          \A s \in StringsOf(ins[1], ins[2]) : NoNul(s)
    /\ \A store \in Stores : \A table \in Tables : \A row \in store[table] :
          \A s \in StringsOf(table, row) : NoNul(s)

\* '#' + h for the hashtags and '$' + c for the cashtags of the selected lists
ExpectedTags(t) ==
    LET e == IF TagsExtended(t) THEN t.extended_tweet.entities ELSE t.entities
    IN  {<<35>> \o h.text : h \in Range(e.hashtags)}
            \cup {<<36>> \o c.text : c \in Range(e.symbols)}

\* C14 (tag extraction): after a call has inserted its record, the committed
\* tweet_tags rows of the tweet carry exactly the tags '#' + h, h a selected
\* hashtag, and '$' + c, c a selected cashtag (as stored, that is without
\* characters 0), one row per distinct tag; hashtags [foo] and cashtags [BAR]
\* give exactly the rows #foo and $BAR.
C14_TagExtraction ==
    \A w \in Writers : out[w] = "Inserted" =>
        LET rows == RowsOf(db, "tweet_tags", cur[w])
            tags == {remove_nulls(Some(s)) : s \in ExpectedTags(cur[w])}
        IN  /\ {r.tag : r \in rows} = tags
            /\ Cardinality(rows) = Cardinality(tags)
            /\ cur[w] = FooBar =>
                 rows = {[id_tweets |-> 5, tag |-> Some(<<35, 102, 111, 111>>)],
                         [id_tweets |-> 5, tag |-> Some(<<36, 66, 65, 82>>)]}

\* the record with hashtags [foo, BAR, foo] and cashtags [foo] was inserted:
\* three rows, #foo once
C14_Witness ==
    /\ out[Loader] = "Inserted" /\ cur[Loader] = Repeated
    /\ Cardinality(db.tweet_tags) = 3
    /\ [id_tweets |-> 5, tag |-> Some(<<36>> \o Foo)] \in db.tweet_tags

HasPoint(t) == "geo" \in DOMAIN t /\ t.geo # NULL /\ "coordinates" \in DOMAIN t.geo[1]

HasBox(t) ==
    /\ "place" \in DOMAIN t /\ t.place # NULL
    /\ "bounding_box" \in DOMAIN t.place[1] /\ t.place[1].bounding_box # NULL

\* C15 (geography variant selection): for the record a call is about to
\* extract the fields of, the geo try-blocks end without an exception; with a
\* point the tag is POINT; with no point but a place bounding box the tag is
\* MULTIPOLYGON and every ring ends at the point it began with; with neither
\* the tag is null, the author's geo_enabled set or not.
C15_GeoVariants ==
    \A w \in Writers : pc[w] = "prepare" =>
        LET t == cur[w]
        IN  /\ ~GeoRaises(t)
            /\ HasPoint(t) => GeoStr(t) = Some("POINT")
            /\ (~HasPoint(t) /\ HasBox(t)) =>
                  /\ GeoStr(t) = Some("MULTIPOLYGON")
                  /\ \A i \in 1..Len(GeoRings(t)) :
                        GeoRings(t)[i][1] = GeoRings(t)[i][Len(GeoRings(t)[i])]
            /\ (~HasPoint(t) /\ ~HasBox(t)) => GeoStr(t) = NULL

\* the country code is 'us' in any letter case
IsUS(t) ==
    /\ HasPlaceKey(t, "country_code")
    /\ LET cc == t.place[1].country_code[1]
       IN  Len(cc) = 2 /\ cc[1] \in {85, 117} /\ cc[2] \in {83, 115}

\* the text after the last comma of s, without the white space around it
Token(s) ==
    LET k == CHOOSE k \in 0..Len(s) :
                 (k = 0 \/ s[k] = 44) /\ \A i \in (k + 1)..Len(s) : s[i] # 44
        ink == {i \in (k + 1)..Len(s) : s[i] \notin {9, 10, 32}}
    IN  IF ink = {} THEN <<>>
        ELSE SubSeq(s, CHOOSE a \in ink : \A i \in ink : a <= i,
                       CHOOSE b \in ink : \A i \in ink : i <= b)

\* C16 (state-code derivation): the tweets row an inserted record is stored
\* with has a non-null state code only if the place country code is 'us' in
\* some letter case; then, for the text after the last comma of the place
\* full name with the surrounding white space removed, the state code is
\* that text in lower case if it has at most 2 characters and null if it has
\* more; in every other case the state code is null.
C16_StateCode ==
    \A w \in Writers : out[w] = "Inserted" =>
        \A r \in RowsOf(db, "tweets", cur[w]) :
            IF IsUS(cur[w])
            THEN LET token == Token(cur[w].place[1].full_name[1])
                 IN  IF Len(token) > 2 THEN r.state_code = NULL
                     ELSE /\ r.state_code # NULL
                          /\ Len(r.state_code[1]) = Len(token)
                          /\ \A i \in 1..Len(token) :
                               r.state_code[1][i] =
                                  IF token[i] \in 65..90 THEN token[i] + 32 ELSE token[i]
            ELSE r.state_code = NULL

\* the record with country code US and full name "B, MA" is stored with
\* state code "ma"
C16_Witness ==
    /\ out[Loader] = "Inserted"
    /\ Get(cur[Loader], "place")
          = Some([country_code |-> Some(<<85, 83>>), full_name |-> Some(BostonMA)])
    /\ \E r \in db.tweets : r.state_code = Some(<<109, 97>>)

\* the media list of the first of the three places that has one
ThreeTierMedia(t) ==
    IF HasExtended(t, "extended_entities")
       /\ "media" \in DOMAIN t.extended_tweet.extended_entities
    THEN t.extended_tweet.extended_entities.media
    ELSE IF "extended_entities" \in DOMAIN t /\ "media" \in DOMAIN t.extended_entities
    THEN t.extended_entities.media
    ELSE IF HasEntity(t, "media") THEN t.entities.media
    ELSE <<>>

\* C17 (media fallback chain): after a call has inserted its record, the
\* committed tweet_media rows of the tweet are one row for each media url of
\* the list found first under extended_tweet.extended_entities, then under
\* extended_entities, then under entities, and none when no list is found.
C17_MediaFallback ==
    \A w \in Writers : out[w] = "Inserted" =>
        LET rows == RowsOf(db, "tweet_media", cur[w])
            media == Range(ThreeTierMedia(cur[w]))
        IN  /\ \A m \in media : \E r \in rows : r.id_urls \in UrlIds(db, m.media_url)
            /\ \A r \in rows : \E m \in media : r.id_urls \in UrlIds(db, m.media_url)

\* C18 (full skip leaves everything unchanged): a call on a record whose id
\* the committed tweets table already holds, whatever else the record
\* carries, is over after its existence check: no committed table, no open
\* transaction and no sequence changes, and the loader is between two
\* records again.
C18_FullSkip ==
    [][\A w \in Writers : \A t \in Shapes :
         (Posted(db, t) /\ CheckExists(w, t))
            => /\ db' = db /\ tx' = tx /\ seq' = seq
               /\ pc'[w] = "idle" /\ out'[w] = "Skipped"
               /\ tx'[w] = EmptyStore]_vars

\* the stored tweet has no url and mentions nobody; the record skipped last
\* has the same id, two urls, two mentions and a reply target
C18_Witness ==
    /\ out[Loader] = "Skipped" /\ Posted(db, cur[Loader])
    /\ Get(cur[Loader], "in_reply_to_user_id") = Some(60)
    /\ Len(cur[Loader].entities.urls) = 2
    /\ db.urls = {} /\ db.tweet_mentions = {} /\ ~HasUser(db, 60)

\* C19 (resolver result under races): a writer whose INSERT INTO urls
\* reported a conflict sees a urls row with the url it asked for when it runs
\* the fallback SELECT; no call ever failed at that SELECT; and every step in
\* which get_id_urls returns hands back the id of a urls row, visible to the
\* caller's transaction, whose url is the argument.
C19_ResolverUnderRaces ==
    /\ [](\A w \in Writers : \A site \in UrlSites :
            /\ pc[w] = SelectOf(site) =>
                 \E r \in View(w).urls : r.url = UrlArg(cur[w], site, idx[w])
            /\ at[w] # SelectOf(site))
    /\ [][\A w \in Writers : \A site \in UrlSites :
            (pc[w] \in {site, SelectOf(site)} /\ pc'[w] = ReturnTo(site))
               => \E r \in View(w)'.urls :
                    /\ r.url = UrlArg(cur[w], site, idx[w])
                    /\ res'[w] = Some(r.id_urls)]_vars

\* a writer's INSERT met the url row that a rival committed, after a third
\* transaction that had inserted a url was aborted; the writer is at the
\* fallback SELECT and has no row for the url of its own
C19_Witness ==
    \E w \in Writers :
        /\ pc[w] \in {"urls_sel", "media_sel", "user_url_sel"}
        /\ \E r \in db.urls : r.url \in {UrlA, UrlB} /\ r.id_urls > 1
        /\ tx[w].urls = {}
        /\ \E v \in Writers \ {w} : out[v] = "Deadlock"

\* C20 (committed post implies complete fan-out): for every record whose
\* tweets row is committed, the committed tables hold the users row of its
\* author and, for each url, mention, tag and media entry extracted from the
\* record, the association row of the tweet with it.
C20_CompleteFanOut ==
    \A t \in Tweets : (\E r \in db.tweets : r = TweetRow(t)) =>
        /\ \E u \in db.users : u.id_users = t.user.id
        /\ \A i \in 1..Len(EntityList(t, "urls")) :
             \E u \in db.urls :
                /\ u.url = EntityList(t, "urls")[i].expanded_url
                /\ [id_tweets |-> t.id, id_urls |-> u.id_urls] \in db.tweet_urls
        /\ \A i \in 1..Len(EntityList(t, "user_mentions")) :
             [id_tweets |-> t.id, id_users |-> EntityList(t, "user_mentions")[i].id]
                \in db.tweet_mentions
        /\ \A i \in 1..Len(TagList(t)) :
             \E g \in db.tweet_tags :
                g.id_tweets = t.id /\ g.tag = remove_nulls(Some(TagList(t)[i]))
        /\ \A i \in 1..Len(MediaList(t)) :
             \E u \in db.urls : \E m \in db.tweet_media :
                /\ u.url = MediaList(t)[i].media_url
                /\ m.id_tweets = t.id /\ m.id_urls = u.id_urls

\* after a call that failed, Tweet1 and Tweet2 are committed with their four
\* url rows, the mention, the two tags and the media row
C20_Witness ==
    /\ \E w \in Writers : Failed(w)
    /\ TweetRow(Tweet1) \in db.tweets /\ TweetRow(Tweet2) \in db.tweets
    /\ Cardinality(db.tweet_urls) = 4 /\ Cardinality(db.tweet_mentions) = 1
    /\ Cardinality(db.tweet_tags) = 2 /\ Cardinality(db.tweet_media) = 1

====
